---- MODULE Spec2Model ----
(***************************************************************************)
(* A model of the differential detection oracle of the scanner backend:    *)
(* the bounded-concurrency Scheduler (core/scheduler.py), the SQLi         *)
(* baseline cache and the per-category scan procedures                     *)
(* (active/injection/*.py).                                                *)
(***************************************************************************)
EXTENDS Integers, Sequences, FiniteSets, TLC

\* ------------------------------------------------------------------ bounds
MaxTasks == 4      \* tasks added to one Scheduler before run_all
MaxPool == 2       \* largest max_concurrent_tasks tried
SnippetLen == 2    \* tokens of a body the baseline prefix keeps (stands for body[:4000])
NumCallers == 2    \* coroutines that call SQLiScanner._baseline concurrently
max_union_cols == 2  \* SQLiScanner(max_union_cols=...): UNION column counts tried
MaxWorkers == 2    \* worker tasks ScanEngine.start creates in one run

VARIABLES
  \* Scheduler (core/scheduler.py)
  max_concurrent_tasks,  \* Scheduler.max_concurrent_tasks
  tasks,                 \* Scheduler.tasks: sequence of ScanTask records
  taskPc,                \* position of each sem_task coroutine
  semaphore,             \* value of the asyncio.Semaphore of run_all
  schedPc,               \* position of run_all: idle, gathering, returned, raised
  \* One scanner object and the scan coroutine running on it
  scanner,               \* which scanner class the object is, with its options
  baselines,             \* SQLiScanner._baselines: param -> (status, len, snippet)
  call,                  \* arguments of the scan method being run
  pos,                   \* position of the scan coroutine: procedure, parameter, payload
  base,                  \* the baseline the running scan compares against
  findings,              \* the findings list of the running scan
  probe,                 \* the request just made and the response it got
  \* The target, as the scanner's requests reach it
  baselineRequests,      \* unmodified requests received, per (url, param) lookup
  \* Concurrent callers of SQLiScanner._baseline
  lookups,               \* per caller: position, arguments, returned baseline
  \* ScanEngine (core/engine.py)
  engine,                \* _scans, _tasks and the worker tasks created by start
  \* A call of one of the pure helpers
  calc                   \* the function called, its arguments and what it returned

schedVars == <<max_concurrent_tasks, tasks, taskPc, semaphore, schedPc>>

scanVars == <<scanner, baselines, call, pos, base, findings, probe, baselineRequests>>

vars == <<max_concurrent_tasks, tasks, taskPc, semaphore, schedPc,
          scanner, baselines, call, pos, base, findings, probe,
          baselineRequests, lookups, engine, calc>>

None == "None"

\* The components a scheduler or scanner run does not touch.
restVars == <<engine, calc>>

\* No engine exists and no helper is being called.
NoRest == engine = None /\ calc = None

\* ============================================================== Scheduler

\* What a task's function does when awaited: it returns a value, raises an
\* Exception, or never returns (a probe that holds its slot).
FuncKinds == {"returns", "raises", "hangs"}

\* ScanTask.__init__
NewTask(f) ==
  [func |-> f, result |-> None, exception |-> None, completed |-> FALSE,
   started |-> FALSE, finished |-> FALSE]

\* ScanTask.run up to the await of the function: started_at is set.
TaskStart(t) == [t EXCEPT !.started = TRUE]

\* ScanTask.run without its except clause: the exception leaves run().
TaskRunNoCatch(t) ==
  IF t.func = "raises"
    THEN [task |-> [t EXCEPT !.finished = TRUE], raised |-> TRUE]
    ELSE [task |-> [t EXCEPT !.result = "value", !.completed = TRUE, !.finished = TRUE],
          raised |-> FALSE]

\* ScanTask.run from the return of the function on: the result or the
\* exception is stored, completed is set, finished_at is set (finally).
\* raised: whether an exception leaves run().
TaskRun(t) ==
  IF t.func = "raises"
    THEN [task |-> [t EXCEPT !.exception = "Exception", !.completed = TRUE, !.finished = TRUE],
          raised |-> FALSE]
    ELSE [task |-> [t EXCEPT !.result = "value", !.completed = TRUE, !.finished = TRUE],
          raised |-> FALSE]

\* The pool size run_all always takes as 1, whatever max_concurrent_tasks is.
SemaphoreInitOne(n) == 1

\* asyncio.Semaphore(self.max_concurrent_tasks)
SemaphoreInit(n) == n

\* A semaphore whose acquire never waits.
SemCanAcquireAlways(s) == TRUE

\* async with semaphore: __aenter__ proceeds only while the value is positive.
SemCanAcquire(s) == s > 0

\* A semaphore whose release gives nothing back.
SemReleaseLost(s) == s

\* async with semaphore: __aexit__ releases the slot.
SemRelease(s) == s + 1

\* Scheduler.pending_tasks
pending_tasks == SelectSeq(tasks, LAMBDA t : ~t.completed)

\* Scheduler.completed_tasks
completed_tasks == SelectSeq(tasks, LAMBDA t : t.completed)

TaskIds == 1..Len(tasks)

Running == {i \in TaskIds : taskPc[i] = "running"}

\* No scanner object exists.
NoScan ==
  /\ scanner = [class |-> None, aggressive |-> FALSE]
  /\ baselines = <<>>
  /\ call = None
  /\ pos = None
  /\ base = None
  /\ findings = <<>>
  /\ probe = None
  /\ baselineRequests = <<>>

\* No scheduler exists.
NoSched ==
  /\ max_concurrent_tasks = 0
  /\ tasks = <<>>
  /\ taskPc = <<>>
  /\ semaphore = 0
  /\ schedPc = None

\* Scheduler.__init__
SchedInit ==
  /\ max_concurrent_tasks \in 1..MaxPool
  /\ tasks = <<>>
  /\ taskPc = <<>>
  /\ semaphore = 0
  /\ schedPc = "idle"
  /\ NoScan
  /\ lookups = <<>>
  /\ NoRest

\* Scheduler.add_task
AddTask(f) ==
  /\ schedPc = "idle"
  /\ Len(tasks) < MaxTasks
  /\ tasks' = Append(tasks, NewTask(f))
  /\ taskPc' = Append(taskPc, "new")
  /\ UNCHANGED <<max_concurrent_tasks, semaphore, schedPc, scanVars, lookups, restVars>>

\* Scheduler.run_all up to the gather: the semaphore is created and one
\* sem_task coroutine per task is scheduled.
RunAll ==
  /\ schedPc = "idle"
  /\ schedPc' = "gathering"
  /\ semaphore' = SemaphoreInit(max_concurrent_tasks)
  /\ taskPc' = [i \in TaskIds |-> "waiting"]
  /\ UNCHANGED <<max_concurrent_tasks, tasks, scanVars, lookups, restVars>>

\* sem_task: the semaphore admits task i, which enters ScanTask.run.
Acquire(i) ==
  /\ i \in TaskIds
  /\ taskPc[i] = "waiting"
  /\ SemCanAcquire(semaphore)
  /\ semaphore' = semaphore - 1
  /\ taskPc' = [taskPc EXCEPT ![i] = "running"]
  /\ tasks' = [tasks EXCEPT ![i] = TaskStart(tasks[i])]
  /\ UNCHANGED <<max_concurrent_tasks, schedPc, scanVars, lookups, restVars>>

\* The function of task i returns or raises: ScanTask.run finishes and
\* sem_task releases the slot.  An exception that leaves run() reaches the
\* gather, which re-raises it in run_all at once.
Finish(i) ==
  /\ i \in TaskIds
  /\ taskPc[i] = "running"
  /\ tasks[i].func # "hangs"
  /\ LET out == TaskRun(tasks[i]) IN
       /\ tasks' = [tasks EXCEPT ![i] = out.task]
       /\ schedPc' = IF out.raised /\ schedPc = "gathering" THEN "raised" ELSE schedPc
  /\ taskPc' = [taskPc EXCEPT ![i] = "left"]
  /\ semaphore' = SemRelease(semaphore)
  /\ UNCHANGED <<max_concurrent_tasks, scanVars, lookups, restVars>>

\* asyncio.gather returns once every sem_task has finished: run_all returns.
Return ==
  /\ schedPc = "gathering"
  /\ \A i \in TaskIds : taskPc[i] = "left"
  /\ schedPc' = "returned"
  /\ UNCHANGED <<max_concurrent_tasks, tasks, taskPc, semaphore, scanVars, lookups, restVars>>

SchedNext ==
  \/ \E f \in FuncKinds : AddTask(f)
  \/ RunAll
  \/ \E i \in 1..MaxTasks : Acquire(i)
  \/ \E i \in 1..MaxTasks : Finish(i)
  \/ Return

SchedSpec == SchedInit /\ [][SchedNext]_vars

\* The event loop runs every ready coroutine: a task the semaphore can admit
\* is admitted, a function that terminates is resumed, the gather completes.
SchedFairSpec ==
  /\ SchedSpec
  /\ \A i \in 1..MaxTasks : WF_vars(Acquire(i)) /\ WF_vars(Finish(i))
  /\ WF_vars(Return)

\* C1: during run_all at most max_concurrent_tasks tasks are inside
\* ScanTask.run at any moment.
C1_BoundedConcurrency == Cardinality(Running) <= max_concurrent_tasks

\* The pool is full while further tasks wait for a slot.
C1_Witness ==
  /\ Cardinality(Running) = max_concurrent_tasks
  /\ \E i \in TaskIds : taskPc[i] = "waiting"
  /\ Len(tasks) > max_concurrent_tasks

\* C6: an exception raised by a task's function is recorded on that task
\* alone (exception set, completed = TRUE), run_all does not raise, and when
\* run_all returns every task has run and completed.
C6_FailureIsolated ==
  /\ schedPc # "raised"
  /\ \A i \in TaskIds :
       /\ taskPc[i] = "left" =>
            /\ tasks[i].completed
            /\ (tasks[i].exception # None) <=> (tasks[i].func = "raises")
            /\ (tasks[i].result # None) <=> (tasks[i].func = "returns")
       /\ taskPc[i] # "left" => tasks[i].exception = None /\ ~tasks[i].completed
  /\ schedPc = "returned" => \A i \in TaskIds : tasks[i].started /\ tasks[i].completed

\* run_all has returned after one task raised and another returned.
C6_Witness ==
  /\ schedPc = "returned"
  /\ \E i, j \in TaskIds :
       /\ tasks[i].func = "raises" /\ tasks[i].exception # None
       /\ tasks[j].func = "returns" /\ tasks[j].completed /\ tasks[j].exception = None

HangingTasks == {i \in TaskIds : tasks[i].func = "hangs"}

\* C7: when every task's function terminates, run_all eventually returns, and
\* then pending_tasks() is empty and completed_tasks() is the whole task list.
C7_RunAllReturns ==
  (schedPc = "gathering" /\ HangingTasks = {})
    ~> (schedPc = "returned" /\ pending_tasks = <<>> /\ completed_tasks = tasks)

\* run_all has returned with more tasks than slots, all completed.
C7_Witness ==
  /\ schedPc = "returned"
  /\ Len(tasks) > max_concurrent_tasks
  /\ pending_tasks = <<>>
  /\ completed_tasks = tasks

\* C8: with a pool of N >= 2 and fewer than N tasks that hold their slot for
\* ever, every other task is eventually admitted and runs to completion.
C8_NoHeadOfLineBlocking ==
  \A i \in 1..MaxTasks :
    (/\ schedPc = "gathering"
     /\ i \in TaskIds
     /\ max_concurrent_tasks >= 2
     /\ Cardinality(HangingTasks) < max_concurrent_tasks
     /\ tasks[i].func # "hangs")
      ~> (i \in TaskIds /\ taskPc[i] = "left" /\ tasks[i].completed)

\* A stuck task holds a slot while another task, admitted after it, has
\* completed and more tasks than slots were queued.
C8_Witness ==
  /\ max_concurrent_tasks >= 2
  /\ Len(tasks) > max_concurrent_tasks
  /\ Cardinality(HangingTasks) < max_concurrent_tasks
  /\ \E h \in HangingTasks : taskPc[h] = "running"
  /\ \A i \in TaskIds \ HangingTasks : taskPc[i] = "left" /\ tasks[i].completed

\* ================================================================= target
\* A response body is a sequence of tokens: "a" is ordinary page text, "E" is
\* text that matches a DB error fingerprint.  LongBody is one token longer
\* than the baseline prefix.
LongBody == [i \in 1..(SnippetLen + 1) |-> "a"]

Resp(st, b) == [status |-> st, body |-> b]

\* _fetch: the failure sentinel returned for a network error or a timeout.
FailResp == Resp(0, <<>>)

\* What the target may answer to one request of the SQLi scanner.
SqliResponses ==
  {FailResp, Resp(200, <<"a">>), Resp(500, <<"a">>), Resp(200, <<"E">>), Resp(200, LongBody)}

\* Observed request durations, in tenths of a second.
Latencies == {1, 50, 120}

\* Durations of the requests of the SQLi scanner: fast, or delayed by 5 s.
SqliLatencies == {1, 50}

Urls == {"u1", "u2"}
Params == {"p", "q"}

EmptyMap == [k \in {} |-> None]

\* A similarity that scores a text against any text at least as long.
SimilarityByLength(a, b) == IF Len(a) <= Len(b) THEN 100 ELSE 0

\* ResponseDiffer.similarity as the repository defines it, in percent.
similarity(a, b) == IF a = b THEN 100 ELSE 0

\* body[:4000]
Prefix(body) ==
  SubSeq(body, 1, IF Len(body) < SnippetLen THEN Len(body) ELSE SnippetLen)

\* ========================================================= baseline cache
\* A lookup that never finds the key in the cache.
BaselineCachedNever(bl, param) == FALSE

\* SQLiScanner._baseline: if param in self._baselines
BaselineCached(bl, param) == param \in DOMAIN bl

\* SQLiScanner._baseline: baseline = (status, len(body), body[:4000])
MakeBaseline(r) ==
  [status |-> r.status, len |-> Len(r.body), snippet |-> Prefix(r.body)]

\* SQLiScanner._baseline: self._baselines[param] = baseline
StoreBaseline(bl, param, b) ==
  [k \in DOMAIN bl \cup {param} |-> IF k = param THEN b ELSE bl[k]]

\* The target receives one more unmodified request for the lookup (url, param).
CountRequest(req, url, param) ==
  [req EXCEPT ![<<url, param>>] = req[<<url, param>>] + 1]

NoRequests == [k \in Urls \X Params |-> 0]

\* ---------------------------------------- concurrent callers of _baseline
Callers == 1..NumCallers

IdleLookup == [pc |-> "idle", url |-> None, param |-> None, result |-> None]

\* SQLiScanner.__init__, with NumCallers coroutines about to call _baseline.
LookupInit ==
  /\ scanner = [class |-> "sqli", aggressive |-> FALSE]
  /\ baselines = EmptyMap
  /\ baselineRequests = NoRequests
  /\ lookups = [c \in Callers |-> IdleLookup]
  /\ NoRest
  /\ call = None
  /\ pos = None
  /\ base = None
  /\ findings = <<>>
  /\ probe = None
  /\ NoSched

\* _baseline(url, param) up to its first await: a cached baseline is returned
\* at once, otherwise the unmodified request is sent.
LookupCall(c, u, p) ==
  /\ lookups[c].pc = "idle"
  /\ IF BaselineCached(baselines, p)
       THEN /\ lookups' = [lookups EXCEPT ![c] =
                 [pc |-> "returned", url |-> u, param |-> p, result |-> baselines[p]]]
            /\ UNCHANGED baselineRequests
       ELSE /\ lookups' = [lookups EXCEPT ![c] =
                 [pc |-> "fetching", url |-> u, param |-> p, result |-> None]]
            /\ baselineRequests' = CountRequest(baselineRequests, u, p)
  /\ UNCHANGED <<schedVars, scanner, baselines, call, pos, base, findings, probe, restVars>>

\* _baseline after the await: the response is turned into a baseline, stored
\* under param and returned.
LookupReceive(c, r) ==
  /\ lookups[c].pc = "fetching"
  /\ baselines' = StoreBaseline(baselines, lookups[c].param, MakeBaseline(r))
  /\ lookups' = [lookups EXCEPT ![c].pc = "returned", ![c].result = MakeBaseline(r)]
  /\ UNCHANGED <<schedVars, scanner, call, pos, base, findings, probe, baselineRequests, restVars>>

LookupNext ==
  \/ \E c \in Callers, u \in Urls, p \in Params : LookupCall(c, u, p)
  \/ \E c \in Callers, r \in SqliResponses : LookupReceive(c, r)

LookupSpec == LookupInit /\ [][LookupNext]_vars

\* C2: when two lookups of the same parameter key overlap, exactly one
\* unmodified request is made and both callers get the same baseline.
C2_SingleFlight ==
  \A c1, c2 \in Callers :
    (/\ c1 # c2
     /\ lookups[c1].pc # "idle" /\ lookups[c2].pc # "idle"
     /\ lookups[c1].url = lookups[c2].url
     /\ lookups[c1].param = lookups[c2].param)
      => /\ baselineRequests[<<lookups[c1].url, lookups[c1].param>>] = 1
         /\ (lookups[c1].pc = "returned" /\ lookups[c2].pc = "returned")
              => lookups[c1].result = lookups[c2].result

\* ============================================================ SQLiScanner
\* Catalog sizes and thresholds of active/injection/sqli.py.  Similarities are
\* in percent, durations in tenths of a second.
NumErrorPayloads == 9
NumBooleanPairs == 3
NumTimePayloads == 4
SQLI_TF_BELOW == 60
SQLI_BASE_ABOVE == 85
SQLI_TIME_AT_LEAST == 45
SQLI_UNION_BELOW == 70

\* logger.log_finding either accepts a finding or raises; it is called only
\* on a positive decision.
SinkOutcomes(positive) == IF positive THEN {"ok", "raises"} ELSE {"ok"}

\* SQLiScanner._looks_like_db_error: DB_ERROR_RE.search(body)
looks_like_db_error(body) == \E i \in 1..Len(body) : body[i] = "E"

\* technique=f"union-based (cols~{cols})"
UnionTechnique(cols) == "union-based (cols~" \o ToString(cols) \o ")"

\* A report that gives every finding severity "Medium".
SqliReportAllMedium(param, technique) ==
  [category |-> "Injection/SQLi", parameter |-> param, technique |-> technique,
   severity |-> "Medium"]

\* SQLiScanner._report: the finding dict built for one positive decision.
SqliReport(param, technique) ==
  [category |-> "Injection/SQLi",
   parameter |-> param,
   technique |-> technique,
   severity |-> IF technique \in {"time-blind", "union-based", "error-based"}
                  THEN "High" ELSE "Medium"]

\* scan_get_params / scan_post_form:
\* if sim_tf < 0.60 and (sim_tb > 0.85 or sim_fb > 0.85)
SqliBooleanPositive(st_t, body_t, st_f, body_f, snippet) ==
  /\ similarity(body_t, body_f) < SQLI_TF_BELOW
  /\ \/ similarity(body_t, snippet) > SQLI_BASE_ABOVE
     \/ similarity(body_f, snippet) > SQLI_BASE_ABOVE

\* scan_get_params: if dt >= 4.5
SqliTimePositive(dt) == dt >= SQLI_TIME_AT_LEAST

\* The union comparison turned round.
SqliUnionPositiveInverted(body, snippet) == similarity(body, snippet) > SQLI_UNION_BELOW

\* scan_get_params: if sim < 0.70
SqliUnionPositive(body, snippet) == similarity(body, snippet) < SQLI_UNION_BELOW

\* The scan calls tried on one scanner object: method, url and the parameter
\* list (for scan_post_form, target_params or the keys of the form).
SqliCalls ==
  {[method |-> "GET", url |-> "u1", params |-> <<>>],
   [method |-> "GET", url |-> "u1", params |-> <<"p">>],
   [method |-> "GET", url |-> "u2", params |-> <<"p">>],
   [method |-> "GET", url |-> "u1", params |-> <<"p", "q">>],
   [method |-> "POST", url |-> "u1", params |-> <<"p">>]}

\* The call sequences explored: a POST scan, which neither reads nor writes
\* _baselines, is made on a scanner whose cache is still empty, and the second
\* URL is scanned after a scan of the first has filled the cache.
SqliCallExplored(c) ==
  /\ c.method = "POST" => baselines = EmptyMap
  /\ c.url = "u2" => baselines # EmptyMap

Pos(proc, p, i) == [proc |-> proc, p |-> p, i |-> i]

Returned == Pos("returned", 0, 0)
Raised == Pos("raised", 0, 0)

NoProbe ==
  [op |-> None, i |-> 0, st_t |-> 0, body_t |-> <<>>, status |-> 0, body |-> <<>>,
   dt |-> 0, sent |-> FALSE]

\* The parameter the scan is working on.
CurParam == call.params[pos.p]

\* A scanner object: its class and its aggressive option.
Scanner(class, aggressive) == [class |-> class, aggressive |-> aggressive]

\* A decision that appends the finding but never leaves the payload loop.
DecideNoBreak(positive, finding, sink, onBreak, onContinue) ==
  /\ findings' = IF positive /\ sink = "ok" THEN Append(findings, finding) ELSE findings
  /\ pos' = IF positive /\ sink # "ok" THEN Raised ELSE onContinue

\* The end of one decision: on a positive one the finding is handed to the
\* evidence sink and appended, and the coroutine goes to onBreak; an exception
\* of the sink leaves the scan method; otherwise the coroutine goes on.
Decide(positive, finding, sink, onBreak, onContinue) ==
  /\ findings' = IF positive /\ sink = "ok" THEN Append(findings, finding) ELSE findings
  /\ pos' = IF positive
              THEN (IF sink = "ok" THEN onBreak ELSE Raised)
              ELSE onContinue

\* SQLiScanner.__init__: no baseline is stored, no scan is running.
SqliInit ==
  /\ scanner = Scanner("sqli", FALSE)
  /\ baselines = EmptyMap
  /\ baselineRequests = NoRequests
  /\ call = None
  /\ pos = Pos("idle", 0, 0)
  /\ base = None
  /\ findings = <<>>
  /\ probe = NoProbe
  /\ lookups = <<>>
  /\ NoRest
  /\ NoSched

\* for p in params: the loop moves to the next parameter or the scan returns.
SqliNextParam ==
  IF pos.p < Len(call.params)
    THEN Pos(IF call.method = "GET" THEN "baseline" ELSE "error", pos.p + 1, 1)
    ELSE Returned

\* The procedure that follows the one at `proc` for the same parameter.
SqliAfter(proc) ==
  CASE proc = "baseline" -> Pos("error", pos.p, 1)
    [] proc = "error" -> Pos("bool_t", pos.p, 1)
    [] proc = "bool_f" -> Pos("time", pos.p, 1)
    [] proc = "time" -> IF call.method = "GET" THEN Pos("union", pos.p, 1) ELSE SqliNextParam
    [] proc = "union" -> SqliNextParam

\* One iteration of a payload loop ends: on a positive decision _report builds
\* the finding and hands it to log_finding, the finding is appended and the
\* loop is left (break); otherwise the loop goes on with the next payload, and
\* after the last one the next procedure starts.  An exception of log_finding
\* leaves the scan method.
SqliDecide(positive, finding, sink, last) ==
  Decide(positive, finding, sink, SqliAfter(pos.proc),
         IF pos.i < last
           THEN Pos(IF pos.proc = "bool_f" THEN "bool_t" ELSE pos.proc, pos.p, pos.i + 1)
           ELSE SqliAfter(pos.proc))

\* scan_get_params(url, params) / scan_post_form(url, form, target_params) is
\* called: findings = [].
SqliCall(c) ==
  /\ scanner.class = "sqli"
  /\ pos.proc \in {"idle", "returned", "raised"}
  /\ SqliCallExplored(c)
  /\ call' = c
  /\ findings' = <<>>
  /\ base' = None
  /\ probe' = NoProbe
  /\ pos' = IF c.method = "POST" THEN Pos("post_baseline", 0, 0)
            ELSE IF c.params = <<>> THEN Returned ELSE Pos("baseline", 1, 1)
  /\ UNCHANGED <<schedVars, scanner, baselines, baselineRequests, lookups, restVars>>

\* scan_get_params: baseline_status, baseline_len, baseline_snippet =
\* await self._baseline(url, p)
SqliBaseline(r) ==
  /\ scanner.class = "sqli"
  /\ pos.proc = "baseline"
  /\ LET hit == BaselineCached(baselines, CurParam) IN
       /\ base' = IF hit THEN baselines[CurParam] ELSE MakeBaseline(r)
       /\ baselines' = IF hit THEN baselines
                       ELSE StoreBaseline(baselines, CurParam, MakeBaseline(r))
       /\ baselineRequests' = IF hit THEN baselineRequests
                              ELSE CountRequest(baselineRequests, call.url, CurParam)
       /\ probe' = [NoProbe EXCEPT !.op = "baseline", !.sent = ~hit,
                      !.status = IF hit THEN 0 ELSE r.status,
                      !.body = IF hit THEN <<>> ELSE r.body]
  /\ pos' = SqliAfter("baseline")
  /\ UNCHANGED <<schedVars, scanner, call, findings, lookups, restVars>>

\* scan_post_form: the baseline POST of the unmodified form, before the loop.
SqliPostBaseline(r) ==
  /\ scanner.class = "sqli"
  /\ pos.proc = "post_baseline"
  /\ base' = MakeBaseline(r)
  /\ probe' = [NoProbe EXCEPT !.op = "post_baseline", !.sent = TRUE,
                 !.status = r.status, !.body = r.body]
  /\ pos' = IF call.params = <<>> THEN Returned ELSE Pos("error", 1, 1)
  /\ UNCHANGED <<schedVars, scanner, call, findings, baselines, baselineRequests, lookups, restVars>>

\* 1) Error-based: one error-trigger payload is sent and its response matched.
SqliErrorPositive(r) == r.status # 0 /\ looks_like_db_error(r.body)

SqliError(r) ==
  /\ scanner.class = "sqli"
  /\ pos.proc = "error"
  /\ probe' = [NoProbe EXCEPT !.op = "error", !.i = pos.i, !.sent = TRUE,
                 !.status = r.status, !.body = r.body]
  /\ \E sink \in SinkOutcomes(SqliErrorPositive(r)) :
       SqliDecide(SqliErrorPositive(r),
                  SqliReport(CurParam, "error-based"), sink, NumErrorPayloads)
  /\ UNCHANGED <<schedVars, scanner, call, base, baselines, baselineRequests, lookups, restVars>>

\* 2) Boolean-based: the true variant of a pair is sent.
SqliBoolTrue(r) ==
  /\ scanner.class = "sqli"
  /\ pos.proc = "bool_t"
  /\ probe' = [NoProbe EXCEPT !.op = "bool_t", !.i = pos.i, !.sent = TRUE,
                 !.st_t = r.status, !.body_t = r.body]
  /\ pos' = Pos("bool_f", pos.p, pos.i)
  /\ UNCHANGED <<schedVars, scanner, call, base, findings, baselines, baselineRequests, lookups, restVars>>

\* if st_t == 0 or st_f == 0: continue; then the similarity rule.
SqliPairPositive(r) ==
  /\ probe.st_t # 0
  /\ r.status # 0
  /\ SqliBooleanPositive(probe.st_t, probe.body_t, r.status, r.body, base.snippet)

\* 2) Boolean-based: the false variant is sent and the pair is evaluated.
SqliBoolFalse(r) ==
  /\ scanner.class = "sqli"
  /\ pos.proc = "bool_f"
  /\ probe' = [NoProbe EXCEPT !.op = "bool_f", !.i = pos.i, !.sent = TRUE,
                 !.status = r.status, !.body = r.body]
  /\ \E sink \in SinkOutcomes(SqliPairPositive(r)) :
       SqliDecide(SqliPairPositive(r),
                  SqliReport(CurParam, "boolean-blind"), sink, NumBooleanPairs)
  /\ UNCHANGED <<schedVars, scanner, call, base, baselines, baselineRequests, lookups, restVars>>

\* if status == 0: continue; if dt >= 4.5
SqliDelayPositive(r, dt) == r.status # 0 /\ SqliTimePositive(dt)

\* 3) Time-based: one delay payload is sent and the request is timed.
SqliTime(r, dt) ==
  /\ scanner.class = "sqli"
  /\ pos.proc = "time"
  /\ probe' = [NoProbe EXCEPT !.op = "time", !.i = pos.i, !.sent = TRUE,
                 !.status = r.status, !.body = r.body, !.dt = dt]
  /\ \E sink \in SinkOutcomes(SqliDelayPositive(r, dt)) :
       SqliDecide(SqliDelayPositive(r, dt),
                  SqliReport(CurParam, "time-blind"), sink, NumTimePayloads)
  /\ UNCHANGED <<schedVars, scanner, call, base, baselines, baselineRequests, lookups, restVars>>

\* if status == 0: continue; if sim < 0.70
SqliColumnsPositive(r) == r.status # 0 /\ SqliUnionPositive(r.body, base.snippet)

\* 4) Union-based: the UNION probe with pos.i columns is sent.
SqliUnion(r) ==
  /\ scanner.class = "sqli"
  /\ pos.proc = "union"
  /\ probe' = [NoProbe EXCEPT !.op = "union", !.i = pos.i, !.sent = TRUE,
                 !.status = r.status, !.body = r.body]
  /\ \E sink \in SinkOutcomes(SqliColumnsPositive(r)) :
       SqliDecide(SqliColumnsPositive(r),
                  SqliReport(CurParam, UnionTechnique(pos.i)), sink, max_union_cols)
  /\ UNCHANGED <<schedVars, scanner, call, base, baselines, baselineRequests, lookups, restVars>>

SqliNext ==
  \/ \E c \in SqliCalls : SqliCall(c)
  \/ \E r \in SqliResponses : SqliBaseline(r)
  \/ \E r \in SqliResponses : SqliPostBaseline(r)
  \/ \E r \in SqliResponses : SqliError(r)
  \/ \E r \in SqliResponses : SqliBoolTrue(r)
  \/ \E r \in SqliResponses : SqliBoolFalse(r)
  \/ \E r \in SqliResponses, dt \in SqliLatencies : SqliTime(r, dt)
  \/ \E r \in SqliResponses : SqliUnion(r)

SqliSpec == SqliInit /\ [][SqliNext]_vars

\* ------------------------------------------------------ SQLiScanner claims
\* The procedures of a GET scan that compare against the parameter's baseline.
SqliProbeProcs == {"error", "bool_t", "bool_f", "time", "union"}

\* C9: over any sequence of scan_get_params calls that do not overlap, the
\* unmodified request of a (url, parameter) lookup reaches the target at most
\* once, and every probe of a parameter compares against the baseline stored
\* for it.
C9_BaselineOnce ==
  /\ \A k \in Urls \X Params : baselineRequests[k] <= 1
  /\ (pos.proc \in SqliProbeProcs /\ call.method = "GET")
       => /\ CurParam \in DOMAIN baselines
          /\ base = baselines[CurParam]

\* A later scan of a parameter took its baseline from the cache: no request
\* was sent for it, and the one request of the first scan is still the only one.
C9_Witness ==
  /\ pos.proc = "error" /\ CurParam = "p"
  /\ call.method = "GET" /\ call.url = "u1"
  /\ probe.op = "baseline" /\ ~probe.sent
  /\ baselineRequests[<<"u1", "p">>] = 1

\* The step that evaluates a boolean pair reported a finding: it was appended,
\* or log_finding raised while taking it.
Reported == Len(findings') > Len(findings) \/ pos' = Raised

\* C4: for every evaluated boolean pair of the SQLi scanner whose two requests
\* succeeded, a boolean-blind finding is reported if and only if
\* sim_tf < 0.60 and (sim_tb > 0.85 or sim_fb > 0.85 or the status codes differ).
C4_SqliBooleanRule ==
  [][(scanner.class = "sqli" /\ pos.proc = "bool_f" /\ probe.st_t # 0 /\ probe'.status # 0)
       => (Reported <=>
             /\ similarity(probe.body_t, probe'.body) < 60
             /\ \/ similarity(probe.body_t, base.snippet) > 85
                \/ similarity(probe'.body, base.snippet) > 85
                \/ probe.st_t # probe'.status)]_vars

\* ========================================================== NoSQLiScanner
NumNoSqliPairs == 3
NOSQLI_TF_BELOW == 60
NOSQLI_BASE_ABOVE == 85

\* What the target may answer to one request of the NoSQLi scanner: "M" is
\* text in which a NoSQL operator is echoed.
NoSqliResponses ==
  {FailResp, Resp(200, <<"a">>), Resp(500, <<"a">>), Resp(200, <<"M">>), Resp(200, LongBody)}

\* MONGO_HINTS_RE.search(body)
mongo_hint(body) == \E i \in 1..Len(body) : body[i] = "M"

\* baseline = (st_b, body_b[:4000])
NoSqliBaselineOf(r) == [status |-> r.status, snippet |-> Prefix(r.body)]

\* NoSQLiScanner._report: the finding dict built for one positive decision.
NoSqliReport(param, title) ==
  [category |-> "Injection/NoSQLi", parameter |-> param, technique |-> title,
   severity |-> "High"]

\* The boolean rule without the status comparison.
NoSqliBooleanPositiveNoStatus(st_t, body_t, st_f, body_f, snippet) ==
  /\ similarity(body_t, body_f) < NOSQLI_TF_BELOW
  /\ \/ similarity(body_t, snippet) > NOSQLI_BASE_ABOVE
     \/ similarity(body_f, snippet) > NOSQLI_BASE_ABOVE

\* if sim_tf < 0.60 and (sim_tb > 0.85 or sim_fb > 0.85 or st_t != st_f)
NoSqliBooleanPositive(st_t, body_t, st_f, body_f, snippet) ==
  /\ similarity(body_t, body_f) < NOSQLI_TF_BELOW
  /\ \/ similarity(body_t, snippet) > NOSQLI_BASE_ABOVE
     \/ similarity(body_f, snippet) > NOSQLI_BASE_ABOVE
     \/ st_t # st_f

\* The scan calls tried: scan_get_params(url, params) and
\* scan_post_form(url, form, target_params).
NoSqliCalls ==
  {[method |-> m, url |-> "u1", params |-> ps] :
     m \in {"GET", "POST"}, ps \in {<<>>, <<"p">>, <<"p", "q">>}}

\* NoSQLiScanner.__init__
NoSqliInit ==
  /\ scanner = Scanner("nosqli", FALSE)
  /\ baselines = EmptyMap
  /\ baselineRequests = NoRequests
  /\ call = None
  /\ pos = Pos("idle", 0, 0)
  /\ base = None
  /\ findings = <<>>
  /\ probe = NoProbe
  /\ lookups = <<>>
  /\ NoRest
  /\ NoSched

\* for p in params: the next parameter's pairs, or return findings.
NoSqliNextParam ==
  IF pos.p < Len(call.params) THEN Pos("bool_t", pos.p + 1, 1) ELSE Returned

\* After the pair loop of a parameter: the operator-leak probe of a GET scan,
\* or the next parameter of a POST scan.
NoSqliAfterPairs ==
  IF call.method = "GET" THEN Pos("leak", pos.p, 1) ELSE NoSqliNextParam

\* scan_get_params / scan_post_form is called: findings = [].
NoSqliCall(c) ==
  /\ scanner.class = "nosqli"
  /\ pos.proc \in {"idle", "returned", "raised"}
  /\ call' = c
  /\ findings' = <<>>
  /\ base' = None
  /\ probe' = NoProbe
  /\ pos' = Pos("baseline", 0, 0)
  /\ UNCHANGED <<schedVars, scanner, baselines, baselineRequests, lookups, restVars>>

\* st_b, body_b = await self._get(url) / self._post(url, form)
NoSqliBaseline(r) ==
  /\ scanner.class = "nosqli"
  /\ pos.proc = "baseline"
  /\ base' = NoSqliBaselineOf(r)
  /\ probe' = [NoProbe EXCEPT !.op = "baseline", !.sent = TRUE,
                 !.status = r.status, !.body = r.body]
  /\ pos' = NoSqliNextParam
  /\ UNCHANGED <<schedVars, scanner, call, findings, baselines, baselineRequests, lookups, restVars>>

\* The true variant of a boolean pair is sent.
NoSqliBoolTrue(r) ==
  /\ scanner.class = "nosqli"
  /\ pos.proc = "bool_t"
  /\ probe' = [NoProbe EXCEPT !.op = "bool_t", !.i = pos.i, !.sent = TRUE,
                 !.st_t = r.status, !.body_t = r.body]
  /\ pos' = Pos("bool_f", pos.p, pos.i)
  /\ UNCHANGED <<schedVars, scanner, call, base, findings, baselines, baselineRequests, lookups, restVars>>

\* if st_t == 0 or st_f == 0: continue; then the similarity rule.
NoSqliPairPositive(r) ==
  /\ probe.st_t # 0
  /\ r.status # 0
  /\ NoSqliBooleanPositive(probe.st_t, probe.body_t, r.status, r.body, base.snippet)

\* The false variant is sent and the pair is evaluated; break on a positive.
NoSqliBoolFalse(r) ==
  /\ scanner.class = "nosqli"
  /\ pos.proc = "bool_f"
  /\ probe' = [NoProbe EXCEPT !.op = "bool_f", !.i = pos.i, !.sent = TRUE,
                 !.status = r.status, !.body = r.body]
  /\ \E sink \in SinkOutcomes(NoSqliPairPositive(r)) :
       Decide(NoSqliPairPositive(r), NoSqliReport(CurParam, "boolean/ops"), sink,
              NoSqliAfterPairs,
              IF pos.i < NumNoSqliPairs THEN Pos("bool_t", pos.p, pos.i + 1)
              ELSE NoSqliAfterPairs)
  /\ UNCHANGED <<schedVars, scanner, call, base, baselines, baselineRequests, lookups, restVars>>

\* if st != 0 and MONGO_HINTS_RE.search(body)
NoSqliLeakPositive(r) == r.status # 0 /\ mongo_hint(r.body)

\* scan_get_params: the operator-leak probe sent once per parameter.
NoSqliLeak(r) ==
  /\ scanner.class = "nosqli"
  /\ pos.proc = "leak"
  /\ probe' = [NoProbe EXCEPT !.op = "leak", !.i = 1, !.sent = TRUE,
                 !.status = r.status, !.body = r.body]
  /\ \E sink \in SinkOutcomes(NoSqliLeakPositive(r)) :
       Decide(NoSqliLeakPositive(r), NoSqliReport(CurParam, "operator leakage"), sink,
              NoSqliNextParam, NoSqliNextParam)
  /\ UNCHANGED <<schedVars, scanner, call, base, baselines, baselineRequests, lookups, restVars>>

NoSqliNext ==
  \/ \E c \in NoSqliCalls : NoSqliCall(c)
  \/ \E r \in NoSqliResponses : NoSqliBaseline(r)
  \/ \E r \in NoSqliResponses : NoSqliBoolTrue(r)
  \/ \E r \in NoSqliResponses : NoSqliBoolFalse(r)
  \/ \E r \in NoSqliResponses : NoSqliLeak(r)

NoSqliSpec == NoSqliInit /\ [][NoSqliNext]_vars

\* A boolean finding of the running scan for the parameter being scanned.
NoSqliBooleanFound ==
  \E k \in 1..Len(findings) :
    findings[k].parameter = CurParam /\ findings[k].technique = "boolean/ops"

\* C5: for every evaluated boolean pair of the NoSQLi scanner whose two
\* requests succeeded, a boolean finding is reported if and only if
\* sim_tf < 0.60 and (sim_tb > 0.85 or sim_fb > 0.85 or the status codes
\* differ); after the first positive no further pair of that parameter is sent.
C5_NoSqliBooleanRule ==
  /\ [][(scanner.class = "nosqli" /\ pos.proc = "bool_f"
           /\ probe.st_t # 0 /\ probe'.status # 0)
          => /\ Reported <=>
                  /\ similarity(probe.body_t, probe'.body) < 60
                  /\ \/ similarity(probe.body_t, base.snippet) > 85
                     \/ similarity(probe'.body, base.snippet) > 85
                     \/ probe.st_t # probe'.status
             /\ Reported => pos'.proc \notin {"bool_t", "bool_f"} \/ pos'.p # pos.p]_vars
  /\ [](pos.proc \in {"bool_t", "bool_f"} => ~NoSqliBooleanFound)

\* A pair whose bodies differ from each other and from the baseline, and whose
\* status codes differ, was reported, and the scan went on to the leak probe.
C5_Witness ==
  /\ scanner.class = "nosqli"
  /\ probe.op = "bool_f" /\ probe.status = 200
  /\ pos.proc = "leak"
  /\ NoSqliBooleanFound
  /\ base.snippet # probe.body

\* ============================================================ SSTIScanner
NumReflectiveProbes == 5
NumTimingProbes == 2
SSTI_ELAPSED_ABOVE == 50

\* What one GET of the SSTI scanner ends in: an exception (timeout or network
\* error, shown as the failure sentinel), a page, or a page that holds the
\* marker "49".
SstiResponses == {FailResp, Resp(200, <<"a">>), Resp(200, <<"49">>)}

\* marker in body
marker_in(body) == \E i \in 1..Len(body) : body[i] = "49"

\* The dict appended to findings by scan_param.
SstiFinding(param, type, i) ==
  [category |-> "ssti", parameter |-> param, technique |-> type, payload |-> i]

\* One scan_param(url, param) call.
ParamCalls == {[method |-> "GET", url |-> "u1", params |-> <<p>>] : p \in Params}

\* SSTIScanner.__init__
SstiInit ==
  /\ \E a \in BOOLEAN : scanner = Scanner("ssti", a)
  /\ baselines = EmptyMap
  /\ baselineRequests = NoRequests
  /\ call = None
  /\ pos = Pos("idle", 0, 0)
  /\ base = None
  /\ findings = <<>>
  /\ probe = NoProbe
  /\ lookups = <<>>
  /\ NoRest
  /\ NoSched

\* scan_param is called: findings = [].
SstiCall(c) ==
  /\ scanner.class = "ssti"
  /\ pos.proc \in {"idle", "returned"}
  /\ call' = c
  /\ findings' = <<>>
  /\ probe' = NoProbe
  /\ pos' = Pos("reflect", 1, 1)
  /\ UNCHANGED <<schedVars, scanner, base, baselines, baselineRequests, lookups, restVars>>

\* After a reflective probe: the next one, then the timing probes if
\* self.aggressive, then return findings.
SstiAfterReflect ==
  IF pos.i < NumReflectiveProbes THEN Pos("reflect", 1, pos.i + 1)
  ELSE IF scanner.aggressive THEN Pos("timing", 1, 1) ELSE Returned

SstiAfterTiming ==
  IF pos.i < NumTimingProbes THEN Pos("timing", 1, pos.i + 1) ELSE Returned

\* if marker and marker in body
SstiReflectPositive(r) == r.status # 0 /\ marker_in(r.body)

\* One reflective probe: the finding is appended after logger.log returned;
\* any exception inside the try block, that of logger.log included, goes on
\* with the next probe.  The loop has no break.
SstiReflect(r) ==
  /\ scanner.class = "ssti"
  /\ pos.proc = "reflect"
  /\ probe' = [NoProbe EXCEPT !.op = "reflect", !.i = pos.i, !.sent = TRUE,
                 !.status = r.status, !.body = r.body]
  /\ \E sink \in SinkOutcomes(SstiReflectPositive(r)) :
       Decide(SstiReflectPositive(r) /\ sink = "ok",
              SstiFinding(CurParam, "reflective", pos.i), "ok",
              SstiAfterReflect, SstiAfterReflect)
  /\ UNCHANGED <<schedVars, scanner, call, base, baselines, baselineRequests, lookups, restVars>>

\* if elapsed > 5
SstiTimingPositive(r, dt) == r.status # 0 /\ dt > SSTI_ELAPSED_ABOVE

\* One timing probe, sent only by an aggressive scanner.
SstiTiming(r, dt) ==
  /\ scanner.class = "ssti"
  /\ pos.proc = "timing"
  /\ probe' = [NoProbe EXCEPT !.op = "timing", !.i = pos.i, !.sent = TRUE,
                 !.status = r.status, !.body = r.body, !.dt = dt]
  /\ \E sink \in SinkOutcomes(SstiTimingPositive(r, dt)) :
       Decide(SstiTimingPositive(r, dt) /\ sink = "ok",
              SstiFinding(CurParam, "timing", pos.i), "ok",
              SstiAfterTiming, SstiAfterTiming)
  /\ UNCHANGED <<schedVars, scanner, call, base, baselines, baselineRequests, lookups, restVars>>

SstiNext ==
  \/ \E c \in ParamCalls : SstiCall(c)
  \/ \E r \in SstiResponses : SstiReflect(r)
  \/ \E r \in SstiResponses, dt \in Latencies : SstiTiming(r, dt)

\* ============================================================ CRLFScanner
NumCrlfPayloads == 5
CRLF_BODY_BELOW == 60

CrlfResp(st, b, h) == [status |-> st, body |-> b, headers |-> h]

\* What the target may answer to one request of the CRLF scanner.  A header
\* token stands for a header the rules look for: a header whose name holds
\* "injected" or "crlf", a Location with an absolute URL, a Set-Cookie whose
\* value holds "CRLF".
CrlfResponses ==
  {CrlfResp(0, <<>>, {}),
   CrlfResp(200, <<"a">>, {}),
   CrlfResp(200, LongBody, {}),
   CrlfResp(200, <<"a">>, {"x-injected"}),
   CrlfResp(302, <<"a">>, {"location"}),
   CrlfResp(200, <<"a">>, {"set-cookie"})}

\* The four rules of scan_param in the order the code tries them: the type of
\* the finding, or None.
CrlfType(r, snippet) ==
  IF r.status = 0 THEN None
  ELSE IF "x-injected" \in r.headers THEN "crlf_header_injection"
  ELSE IF "location" \in r.headers THEN "crlf_location_injection"
  ELSE IF "set-cookie" \in r.headers THEN "crlf_setcookie_injection"
  ELSE IF similarity(r.body, snippet) < CRLF_BODY_BELOW THEN "crlf_body_diff"
  ELSE None

\* The meta dict appended to findings, with the category and severity given
\* to log_finding.
CrlfFinding(param, type, i) ==
  [category |-> "CRLF", parameter |-> param, technique |-> type, payload |-> i,
   severity |-> IF type = "crlf_body_diff" THEN "Medium" ELSE "High"]

\* CRLFScanner.__init__
CrlfInit ==
  /\ \E a \in BOOLEAN : scanner = Scanner("crlf", a)
  /\ baselines = EmptyMap
  /\ baselineRequests = NoRequests
  /\ call = None
  /\ pos = Pos("idle", 0, 0)
  /\ base = None
  /\ findings = <<>>
  /\ probe = NoProbe
  /\ lookups = <<>>
  /\ NoRest
  /\ NoSched

\* scan_param is called: findings = [].
CrlfCall(c) ==
  /\ scanner.class = "crlf"
  /\ pos.proc \in {"idle", "returned", "raised"}
  /\ call' = c
  /\ findings' = <<>>
  /\ base' = None
  /\ probe' = NoProbe
  /\ pos' = Pos("baseline", 1, 0)
  /\ UNCHANGED <<schedVars, scanner, baselines, baselineRequests, lookups, restVars>>

\* base_status, base_body, base_headers = await self._get(url)
CrlfBaseline(r) ==
  /\ scanner.class = "crlf"
  /\ pos.proc = "baseline"
  /\ base' = [status |-> r.status, snippet |-> Prefix(r.body)]
  /\ probe' = [NoProbe EXCEPT !.op = "baseline", !.sent = TRUE,
                 !.status = r.status, !.body = r.body]
  /\ pos' = Pos("payload", 1, 1)
  /\ UNCHANGED <<schedVars, scanner, call, findings, baselines, baselineRequests, lookups, restVars>>

\* The loop goes on with the next payload, or scan_param returns.
CrlfNextPayload ==
  IF pos.i < NumCrlfPayloads THEN Pos("payload", 1, pos.i + 1) ELSE Returned

\* One payload of CRLF_PAYLOADS is sent and the rules are tried; a finding
\* breaks the loop, except a body_diff finding of an aggressive scanner.
CrlfPayload(r) ==
  /\ scanner.class = "crlf"
  /\ pos.proc = "payload"
  /\ probe' = [NoProbe EXCEPT !.op = "payload", !.i = pos.i, !.sent = TRUE,
                 !.status = r.status, !.body = r.body]
  /\ LET type == CrlfType(r, base.snippet) IN
       \E sink \in SinkOutcomes(type # None) :
         Decide(type # None, CrlfFinding(CurParam, type, pos.i), sink,
                IF type = "crlf_body_diff" /\ scanner.aggressive
                  THEN CrlfNextPayload ELSE Returned,
                CrlfNextPayload)
  /\ UNCHANGED <<schedVars, scanner, call, base, baselines, baselineRequests, lookups, restVars>>

CrlfNext ==
  \/ \E c \in ParamCalls : CrlfCall(c)
  \/ \E r \in CrlfResponses : CrlfBaseline(r)
  \/ \E r \in CrlfResponses : CrlfPayload(r)

\* ------------------------------------- the three scanners named by claim C3
InjectionInit == SqliInit \/ SstiInit \/ CrlfInit

InjectionNext == SqliNext \/ SstiNext \/ CrlfNext

InjectionSpec == InjectionInit /\ [][InjectionNext]_vars

\* The procedure of scan_get_params a technique string comes from.
SqliProcedureOf(technique) ==
  IF technique \in {UnionTechnique(cols) : cols \in 1..max_union_cols}
    THEN "union-based" ELSE technique

NumReflectiveCmds == 5
NumMarkerCmds == 3
NumTimeProbes == 4
NumOobPayloads == 4
CMDI_HEURISTIC_BELOW == 70
TIME_THRESHOLD == 45

\* What the target may answer to one request of the CMDi scanner: "C" is text
\* that holds CMDI_TEST_12345, "U" is text that holds uid=.
CmdiResponses ==
  {FailResp, Resp(200, <<"a">>), Resp(200, <<"C">>), Resp(200, <<"U">>)}

\* Answers to the requests of the timing and OOB procedures.
CmdiBlindResponses == {FailResp, Resp(200, <<"a">>)}

\* expected_marker in body
cmdi_marker_in(body) == \E i \in 1..Len(body) : body[i] = "C"

\* any(tok.lower() in body.lower() for tok in suspicious_tokens)
suspicious(body) == \E i \in 1..Len(body) : body[i] \in {"C", "U"}

\* The finding dict of the CMDi scanner, with the category and severity given
\* to log_finding.
CmdiFinding(param, type, i, st) ==
  [category |-> "CMDi", parameter |-> param, technique |-> type, payload |-> i,
   status_code |-> st,
   severity |-> IF type = "command_injection_oob_attempt" THEN "Info" ELSE "High"]

\* The calls tried: scan_reflective_param, scan_timing_param and
\* scan_oob_param, for one parameter; oob is whether oob_domain is given.
CmdiCalls ==
  {[method |-> "GET", url |-> "u1", params |-> <<"p">>, procedure |-> pr, oob |-> o] :
     pr \in {"reflective", "timing", "oob"}, o \in BOOLEAN}

\* CMDIScanner.__init__
CmdiInit ==
  /\ \E a \in BOOLEAN : scanner = Scanner("cmdi", a)
  /\ baselines = EmptyMap
  /\ baselineRequests = NoRequests
  /\ call = None
  /\ pos = Pos("idle", 0, 0)
  /\ base = None
  /\ findings = <<>>
  /\ probe = NoProbe
  /\ lookups = <<>>
  /\ NoRest
  /\ NoSched

\* One of the three scan methods is called: findings = []; scan_timing_param
\* returns at once unless self.aggressive, scan_oob_param unless oob_domain.
CmdiCall(c) ==
  /\ scanner.class = "cmdi"
  /\ pos.proc \in {"idle", "returned", "raised"}
  /\ c.oob => c.procedure = "oob"
  /\ call' = c
  /\ findings' = <<>>
  /\ base' = None
  /\ probe' = NoProbe
  /\ pos' = CASE c.procedure = "reflective" -> Pos("baseline", 1, 0)
              [] c.procedure = "timing" ->
                   IF scanner.aggressive THEN Pos("time_baseline", 1, 0) ELSE Returned
              [] c.procedure = "oob" ->
                   IF c.oob THEN Pos("oob", 1, 1) ELSE Returned
  /\ UNCHANGED <<schedVars, scanner, baselines, baselineRequests, lookups, restVars>>

\* scan_reflective_param: baseline_status, baseline_body, _ = await self._get(url)
CmdiBaseline(r) ==
  /\ scanner.class = "cmdi"
  /\ pos.proc = "baseline"
  /\ base' = [status |-> r.status, snippet |-> Prefix(r.body), dt |-> 0]
  /\ probe' = [NoProbe EXCEPT !.op = "baseline", !.sent = TRUE,
                 !.status = r.status, !.body = r.body]
  /\ pos' = Pos("reflective", 1, 1)
  /\ UNCHANGED <<schedVars, scanner, call, findings, baselines, baselineRequests, lookups, restVars>>

\* The two rules of scan_reflective_param in the order the code tries them:
\* the type of the finding, or None.  Only the first NumMarkerCmds payloads
\* have an expected marker.
CmdiReflectiveType(r, i, snippet) ==
  IF r.status = 0 THEN None
  ELSE IF i <= NumMarkerCmds /\ cmdi_marker_in(r.body) THEN "command_injection_reflective"
  ELSE IF similarity(r.body, snippet) < CMDI_HEURISTIC_BELOW /\ suspicious(r.body)
    THEN "command_injection_reflective_heuristic"
  ELSE None

\* scan_reflective_param: one payload of REFLECTIVE_CMDS is sent and judged.
CmdiReflective(r) ==
  /\ scanner.class = "cmdi"
  /\ pos.proc = "reflective"
  /\ probe' = [NoProbe EXCEPT !.op = "reflective", !.i = pos.i, !.sent = TRUE,
                 !.status = r.status, !.body = r.body]
  /\ LET type == CmdiReflectiveType(r, pos.i, base.snippet) IN
       \E sink \in SinkOutcomes(type # None) :
         Decide(type # None, CmdiFinding(CurParam, type, pos.i, r.status), sink,
                Returned,
                IF pos.i < NumReflectiveCmds THEN Pos("reflective", 1, pos.i + 1)
                ELSE Returned)
  /\ UNCHANGED <<schedVars, scanner, call, base, baselines, baselineRequests, lookups, restVars>>

\* scan_timing_param: the baseline request is timed (base_dt).
CmdiTimeBaseline(r, dt) ==
  /\ scanner.class = "cmdi"
  /\ pos.proc = "time_baseline"
  /\ base' = [status |-> r.status, snippet |-> Prefix(r.body), dt |-> dt]
  /\ probe' = [NoProbe EXCEPT !.op = "baseline", !.sent = TRUE,
                 !.status = r.status, !.body = r.body, !.dt = dt]
  /\ pos' = Pos("timing", 1, 1)
  /\ UNCHANGED <<schedVars, scanner, call, findings, baselines, baselineRequests, lookups, restVars>>

\* if elapsed - base_dt > TIME_THRESHOLD
CmdiTimingPositive(elapsed, base_dt) == elapsed - base_dt > TIME_THRESHOLD

\* scan_timing_param: one probe of TIME_PROBES is sent and timed; the status
\* of the response is not looked at.
CmdiTiming(r, dt) ==
  /\ scanner.class = "cmdi"
  /\ pos.proc = "timing"
  /\ probe' = [NoProbe EXCEPT !.op = "timing", !.i = pos.i, !.sent = TRUE,
                 !.status = r.status, !.body = r.body, !.dt = dt]
  /\ \E sink \in SinkOutcomes(CmdiTimingPositive(dt, base.dt)) :
       Decide(CmdiTimingPositive(dt, base.dt),
              CmdiFinding(CurParam, "command_injection_timing", pos.i, r.status), sink,
              Returned,
              IF pos.i < NumTimeProbes THEN Pos("timing", 1, pos.i + 1) ELSE Returned)
  /\ UNCHANGED <<schedVars, scanner, call, base, baselines, baselineRequests, lookups, restVars>>

\* scan_oob_param: one OOB payload is sent and the attempt is recorded as a
\* finding, whatever the response.
CmdiOob(r) ==
  /\ scanner.class = "cmdi"
  /\ pos.proc = "oob"
  /\ probe' = [NoProbe EXCEPT !.op = "oob", !.i = pos.i, !.sent = TRUE,
                 !.status = r.status, !.body = r.body]
  /\ LET next == IF pos.i < NumOobPayloads THEN Pos("oob", 1, pos.i + 1) ELSE Returned IN
       \E sink \in SinkOutcomes(TRUE) :
         Decide(TRUE, CmdiFinding(CurParam, "command_injection_oob_attempt", pos.i, r.status),
                sink, next, next)
  /\ UNCHANGED <<schedVars, scanner, call, base, baselines, baselineRequests, lookups, restVars>>

CmdiNext ==
  \/ \E c \in CmdiCalls : CmdiCall(c)
  \/ \E r \in CmdiResponses : CmdiBaseline(r)
  \/ \E r \in CmdiResponses : CmdiReflective(r)
  \/ \E r \in CmdiBlindResponses, dt \in Latencies : CmdiTimeBaseline(r, dt)
  \/ \E r \in CmdiBlindResponses, dt \in Latencies : CmdiTiming(r, dt)
  \/ \E r \in CmdiBlindResponses : CmdiOob(r)

CmdiSpec == CmdiInit /\ [][CmdiNext]_vars

\* The operations that send the unmodified request.
BaselineOps == {"baseline", "post_baseline"}

\* C10: a probe that came back as the failure sentinel (status 0) produces no
\* finding; the variant is skipped and the scan goes on.
C10_FailedProbeSkipped ==
  [][(probe'.sent /\ probe'.op \notin BaselineOps /\ probe'.op # "bool_t"
        /\ probe'.status = 0)
       => (findings' = findings /\ pos' # Raised)]_vars

\* The operations that send a delay payload.
TimingOps == {"time", "timing"}

\* C11: a scanner on which aggressive probing is not enabled sends no delay
\* payload.
C11_TimingOnlyWhenAggressive ==
  ~scanner.aggressive => ~(probe.sent /\ probe.op \in TimingOps)

\* C12: every finding appended to a findings list comes from a decision rule
\* that was positive on the response of the probe just made.
C12_FindingHasDecision ==
  [][Len(findings') > Len(findings)
       => LET f == findings'[Len(findings')] IN
            /\ probe'.sent
            /\ CASE f.technique = "command_injection_reflective" ->
                      \E i \in 1..Len(probe'.body) : probe'.body[i] = "C"
                 [] f.technique = "command_injection_reflective_heuristic" ->
                      /\ probe'.body # base.snippet
                      /\ \E i \in 1..Len(probe'.body) : probe'.body[i] \in {"C", "U"}
                 [] f.technique = "command_injection_timing" ->
                      probe'.dt - base.dt > 45
                 [] OTHER -> FALSE]_vars

\* C13: an exception of log_finding never leaves a scan method of the SQLi
\* scanner.
C13_SinkFailureContained == scanner.class = "sqli" => pos.proc # "raised"

\* ============================================================= ScanEngine
NumWorkSteps == 10
FindingStep == 5
ProgressPerStep == 10

ScanIds == {"s1", "s2"}

\* start: the record stored in _scans[scan_id].
NewScan == [status |-> "queued", progress |-> 0, findings |-> <<>>]

\* A dict with key k set to v.
DictSet(d, k, v) == [x \in DOMAIN d \cup {k} |-> IF x = k THEN v ELSE d[x]]

\* loop.create_task(self._run_scan(scan_id, target)): a task that has not run yet.
NewWorker(id) == [scan |-> id, pc |-> "new", i |-> 0]

\* task.cancel() of a task that is not done: CancelledError is thrown into the
\* coroutine where it is suspended, so it runs no further statement.
Cancel(w) == IF w.pc \in {"new", "sleeping"} THEN [w EXCEPT !.pc = "cancelled"] ELSE w

\* The class-level _scans and _tasks are empty and no worker exists.
EngineInit ==
  /\ engine = [scans |-> EmptyMap, tasks |-> EmptyMap, workers |-> <<>>]
  /\ calc = None
  /\ lookups = <<>>
  /\ NoScan
  /\ NoSched

\* start(config): _scans[scan_id] is (re)set to a queued record; when an event
\* loop is at hand (scheduled) the worker task is created and stored in
\* _tasks[scan_id], otherwise RuntimeError is swallowed and no task exists.
EngStart(id, scheduled) ==
  /\ scheduled => Len(engine.workers) < MaxWorkers
  /\ engine' =
       [scans |-> DictSet(engine.scans, id, NewScan),
        tasks |-> IF scheduled
                    THEN DictSet(engine.tasks, id, Len(engine.workers) + 1)
                    ELSE engine.tasks,
        workers |-> IF scheduled
                      THEN Append(engine.workers, NewWorker(id))
                      ELSE engine.workers]
  /\ UNCHANGED <<schedVars, scanVars, lookups, calc>>

\* _run_scan from its start to the first await: status = "running".
EngBegin(w) ==
  /\ w \in 1..Len(engine.workers)
  /\ engine.workers[w].pc = "new"
  /\ LET id == engine.workers[w].scan IN
       engine' = [engine EXCEPT !.scans[id].status = "running",
                                !.workers[w] = [scan |-> id, pc |-> "sleeping", i |-> 1]]
  /\ UNCHANGED <<schedVars, scanVars, lookups, calc>>

\* _run_scan from one await asyncio.sleep to the next: progress is set, the
\* sample finding is appended in iteration FindingStep, and after the last
\* iteration status = "completed".
EngStep(w) ==
  /\ w \in 1..Len(engine.workers)
  /\ engine.workers[w].pc = "sleeping"
  /\ LET id == engine.workers[w].scan
         i == engine.workers[w].i
         last == i = NumWorkSteps
     IN
       engine' = [engine EXCEPT
         !.scans[id] =
            [status |-> IF last THEN "completed" ELSE @.status,
             progress |-> i * ProgressPerStep,
             findings |-> IF i = FindingStep
                            THEN Append(@.findings, "Simulated issue") ELSE @.findings],
         !.workers[w] = IF last THEN [scan |-> id, pc |-> "done", i |-> i]
                        ELSE [scan |-> id, pc |-> "sleeping", i |-> i + 1]]
  /\ UNCHANGED <<schedVars, scanVars, lookups, calc>>

\* stop(scan_id): the task in _tasks[scan_id], if any and not done, is
\* cancelled; the record in _scans[scan_id], if any, gets status "stopped".
EngStop(id) ==
  /\ engine' =
       [scans |-> IF id \in DOMAIN engine.scans
                    THEN [engine.scans EXCEPT ![id].status = "stopped"]
                    ELSE engine.scans,
        tasks |-> engine.tasks,
        workers |-> IF id \in DOMAIN engine.tasks
                      THEN [engine.workers EXCEPT ![engine.tasks[id]] = Cancel(@)]
                      ELSE engine.workers]
  /\ UNCHANGED <<schedVars, scanVars, lookups, calc>>

EngineNext ==
  \/ \E id \in ScanIds, scheduled \in BOOLEAN : EngStart(id, scheduled)
  \/ \E w \in 1..MaxWorkers : EngBegin(w)
  \/ \E w \in 1..MaxWorkers : EngStep(w)
  \/ \E id \in ScanIds : EngStop(id)

EngineSpec == EngineInit /\ [][EngineNext]_vars

\* C14: once stop(scan_id) has set a queued or running scan to "stopped", no
\* worker changes the scan any more: its status, progress and findings stay
\* as they are until the scan is started anew.
C14_StoppedScanFrozen ==
  [][\A id \in ScanIds :
       (id \in DOMAIN engine.scans /\ engine.scans[id].status = "stopped")
         => \/ engine'.scans[id] = engine.scans[id]
            \/ engine'.scans[id] = NewScan]_vars

\* C15: a scan method called with an empty parameter list does not return
\* normally (with an empty findings list); it ends in an error.
C15_MisuseFailsFast == pos.proc = "returned" => call.params # <<>>

\* The findings of the running scan for parameter p made by procedure proc.
SqliFindingsOf(p, proc) ==
  {k \in 1..Len(findings) :
     findings[k].parameter = p /\ SqliProcedureOf(findings[k].technique) = proc}

\* C16: the error-trigger payloads of a parameter are sent in catalog order;
\* the first response with status != 0 and a body matching a DB error
\* fingerprint is reported as one finding with technique "error-based" and
\* severity "High", after which no error-trigger payload is sent for that
\* parameter; a response that does not match is not reported.
C16_ErrorBased ==
  /\ [][(scanner.class = "sqli" /\ pos.proc = "error")
          => /\ Reported <=> (probe'.status # 0
                              /\ \E i \in 1..Len(probe'.body) : probe'.body[i] = "E")
             /\ Len(findings') > Len(findings) =>
                  findings'[Len(findings')] =
                    [category |-> "Injection/SQLi", parameter |-> CurParam,
                     technique |-> "error-based", severity |-> "High"]
             /\ Reported => pos'.proc # "error"
             /\ (~Reported /\ pos.i < 9) => pos' = Pos("error", pos.p, pos.i + 1)
             /\ (~Reported /\ pos.i = 9) => pos'.proc # "error"]_vars
  /\ [](scanner.class = "sqli" =>
          \A p \in Params :
            /\ Cardinality(SqliFindingsOf(p, "error-based")) <= 1
            /\ (pos.proc = "error" /\ CurParam = p) => SqliFindingsOf(p, "error-based") = {})

\* The fourth error-trigger payload was the first to match: one error-based
\* finding is recorded and the scan has gone on to the boolean pairs.
C16_Witness ==
  /\ scanner.class = "sqli"
  /\ probe.op = "error" /\ probe.i = 4
  /\ pos.proc = "bool_t"
  /\ Cardinality(SqliFindingsOf(CurParam, "error-based")) = 1

\* C17: UNION probes are sent with 1, 2, ..., max_union_cols columns in
\* increasing order; the first non-failed response whose similarity to the
\* baseline is below 0.70 is reported with its column count and no larger
\* count is probed; a response that is not below 0.70 is not reported.
C17_UnionColumns ==
  /\ [][(scanner.class = "sqli" /\ pos.proc = "union")
          => /\ Reported <=> (probe'.status # 0
                              /\ similarity(probe'.body, base.snippet) < 70)
             /\ Len(findings') > Len(findings) =>
                  /\ findings'[Len(findings')].parameter = CurParam
                  /\ findings'[Len(findings')].technique =
                       "union-based (cols~" \o ToString(pos.i) \o ")"
             /\ Reported => pos'.proc # "union" \/ pos'.p # pos.p
             /\ (~Reported /\ pos.i < max_union_cols) => pos' = Pos("union", pos.p, pos.i + 1)
             /\ (~Reported /\ pos.i = max_union_cols)
                  => pos'.proc # "union" \/ pos'.p # pos.p]_vars
  /\ [](scanner.class = "sqli" =>
          \A p \in Params :
            /\ Cardinality(SqliFindingsOf(p, "union-based")) <= 1
            /\ (pos.proc = "union" /\ CurParam = p) => SqliFindingsOf(p, "union-based") = {})

\* The probe with one column was not flagged and the one with two columns was:
\* the finding names two columns and the scan of the parameter list is over.
C17_Witness ==
  /\ scanner.class = "sqli"
  /\ probe.op = "union" /\ probe.i = 2 /\ probe.status # 0
  /\ pos = Returned
  /\ \E k \in 1..Len(findings) : findings[k].technique = UnionTechnique(2)

\* ------------------------------------------ a target that is slow throughout
\* Every request to this target, the unmodified one included, takes 6 s: its
\* answers to delay payloads are no slower than its baseline.
SlowLatencies == {60}

SlowTargetInit == SqliInit \/ SstiInit \/ CmdiInit

\* The timing scans of the three scanners against the slow target: the
\* requests that the code times take a duration of SlowLatencies.
SlowTargetNext ==
  \/ \E c \in SqliCalls : SqliCall(c)
  \/ \E r \in SqliResponses : SqliBaseline(r)
  \/ \E r \in SqliResponses : SqliPostBaseline(r)
  \/ \E r \in SqliResponses : SqliError(r)
  \/ \E r \in SqliResponses : SqliBoolTrue(r)
  \/ \E r \in SqliResponses : SqliBoolFalse(r)
  \/ \E r \in SqliResponses, dt \in SlowLatencies : SqliTime(r, dt)
  \/ \E r \in SqliResponses : SqliUnion(r)
  \/ \E c \in ParamCalls : SstiCall(c)
  \/ \E r \in SstiResponses : SstiReflect(r)
  \/ \E r \in SstiResponses, dt \in SlowLatencies : SstiTiming(r, dt)
  \/ \E c \in CmdiCalls : CmdiCall(c)
  \/ \E r \in CmdiResponses : CmdiBaseline(r)
  \/ \E r \in CmdiResponses : CmdiReflective(r)
  \/ \E r \in CmdiBlindResponses, dt \in SlowLatencies : CmdiTimeBaseline(r, dt)
  \/ \E r \in CmdiBlindResponses, dt \in SlowLatencies : CmdiTiming(r, dt)
  \/ \E r \in CmdiBlindResponses : CmdiOob(r)

SlowTargetSpec == SlowTargetInit /\ [][SlowTargetNext]_vars

\* The technique names of timing findings.
TimingTechniques == {"time-blind", "timing", "command_injection_timing"}

\* C18: against a target whose delay-payload responses are no slower than its
\* (slow) unmodified request, no timing finding is emitted.
C18_NoTimingFindingOnSlowTarget ==
  \A k \in 1..Len(findings) : findings[k].technique \notin TimingTechniques

\* ========================================================= TimingAnalyzer
\* Durations are in tenths of a second; a threshold of 45 is 4.5 s as a flat
\* threshold and the factor 4.5 as a multiple of the standard deviation.
MaxSamples == 2

SampleTimes == {1, 3, 50}

\* The response times the analyzer is asked about.
ResponseTimes == {1, 3, 50, 100}

\* The default threshold 3.0 and the 4.5 of the timing procedures.
Thresholds == {30, 45}

BaselinePopulations == UNION {[1..n -> SampleTimes] : n \in 0..MaxSamples}

RECURSIVE SumOf(_)
SumOf(s) == IF s = <<>> THEN 0 ELSE Head(s) + SumOf(Tail(s))

RECURSIVE SumOfSquares(_)
SumOfSquares(s) ==
  IF s = <<>> THEN 0 ELSE Head(s) * Head(s) + SumOfSquares(Tail(s))

Abs(x) == IF x < 0 THEN -x ELSE x

\* n * (n - 1) * variance of the samples: with n = Len(s), statistics.stdev(s)
\* is the square root of SpreadOf(s) / (n * (n - 1)).
SpreadOf(s) == Len(s) * SumOfSquares(s) - SumOf(s) * SumOf(s)

\* baseline_std > 0: stdev is only computed for more than one sample.
baseline_std_positive(s) == Len(s) > 1 /\ SpreadOf(s) > 0

\* deviation > baseline_std * threshold, with both sides squared and cleared
\* of denominators: deviation = |n * t - sum| / n.
StatisticalTest(s, response_time, threshold) ==
  LET n == Len(s)
      d == n * response_time - SumOf(s)
  IN  100 * (n - 1) * d * d > n * SpreadOf(s) * threshold * threshold

\* is_delayed as the code computes it, on the baseline the analyzer holds.
is_delayed(s, response_time, threshold) ==
  IF s = <<>> THEN FALSE
  ELSE IF baseline_std_positive(s)
       THEN StatisticalTest(s, response_time, threshold)
       ELSE Abs(Len(s) * response_time - SumOf(s)) > threshold * Len(s)

\* TimingAnalyzer(baseline_response_times)
TimingInit ==
  /\ \E s \in BaselinePopulations :
       calc = [pc |-> "constructed", baseline |-> s,
               response_time |-> 0, threshold |-> 0, delayed |-> FALSE]
  /\ engine = None
  /\ lookups = <<>>
  /\ NoScan
  /\ NoSched

\* analyzer.is_delayed(response_time, threshold)
IsDelayed(response_time, threshold) ==
  /\ calc' = [calc EXCEPT !.pc = "answered",
                          !.response_time = response_time,
                          !.threshold = threshold,
                          !.delayed = is_delayed(calc.baseline, response_time,
                                                 threshold)]
  /\ UNCHANGED <<schedVars, scanVars, lookups, engine>>

TimingNext == \E t \in ResponseTimes, k \in Thresholds : IsDelayed(t, k)

TimingSpec == TimingInit /\ [][TimingNext]_vars

\* C19: for a population of one sample is_delayed is the test
\* observed - baseline > threshold, and for two or more samples it is the test
\* |observed - mean| > threshold * stddev.
C19_IsDelayedPolicy ==
  (calc.pc = "answered" /\ calc.baseline # <<>>) =>
    LET s == calc.baseline
        n == Len(s)
        d == n * calc.response_time - SumOf(s)
    IN  calc.delayed =
          IF n < 2
          THEN calc.response_time - s[1] > calc.threshold
          ELSE 100 * (n - 1) * d * d
                 > n * SpreadOf(s) * calc.threshold * calc.threshold

\* ================================================ ResponseDiffer.similarity
MaxTextLen == 2

\* The tokens of a text.
Tokens == {"a", "E", "M"}

\* The texts the differ is given, the empty text included.
Texts == UNION {[1..n -> Tokens] : n \in 0..MaxTextLen}

TokensOf(t) == {t[k] : k \in 1..Len(t)}

\* Two texts about to be compared by ResponseDiffer().
SimilarityInit ==
  /\ \E a \in Texts, b \in Texts :
       calc = [pc |-> "texts", a |-> a, b |-> b, sim_ab |-> 0, sim_ba |-> 0]
  /\ engine = None
  /\ lookups = <<>>
  /\ NoScan
  /\ NoSched

\* differ.similarity(a, b) and differ.similarity(b, a)
Compare ==
  /\ calc.pc = "texts"
  /\ calc' = [calc EXCEPT !.pc = "compared",
                          !.sim_ab = similarity(calc.a, calc.b),
                          !.sim_ba = similarity(calc.b, calc.a)]
  /\ UNCHANGED <<schedVars, scanVars, lookups, engine>>

SimilarityNext == Compare

SimilaritySpec == SimilarityInit /\ [][SimilarityNext]_vars

\* C20: similarity is defined for every pair of texts, the empty text
\* included: its value lies in [0, 1], is 1.0 for equal texts, is below 1.0 for
\* different texts that share no token, and is the same in both directions.
C20_SimilarityContract ==
  /\ calc.pc = "texts" => ENABLED Compare
  /\ calc.pc = "compared" =>
       /\ calc.sim_ab \in 0..100
       /\ calc.a = calc.b => calc.sim_ab = 100
       /\ (calc.a # calc.b /\ TokensOf(calc.a) \cap TokensOf(calc.b) = {})
            => calc.sim_ab < 100
       /\ calc.sim_ab = calc.sim_ba

\* The empty text has been compared with a text that is not empty.
C20_Witness ==
  /\ calc.pc = "compared"
  /\ calc.a = <<>>
  /\ calc.b # <<>>
  /\ calc.sim_ab = 0

\* ========================================================= FindingsManager
\* The writers of one scan: tasks of the scheduler whose function is not a
\* coroutine run in the executor's threads (scheduler.py:35-36).
NumWriters == 2

\* uuid4 values handed out, as many as the writers can ask for.
MaxFindingIds == 3

Targets == {"t1", "t2"}

Writers == 1..NumWriters

IdleWriter == [pc |-> "idle", target |-> None, returned |-> 0]

\* FindingsManager(): no scan has findings; every writer is outside add_finding.
FindingsInit ==
  /\ calc = [stored |-> <<>>, nextId |-> 1, writer |-> [w \in Writers |-> IdleWriter]]
  /\ engine = None
  /\ lookups = <<>>
  /\ NoScan
  /\ NoSched

\* The id of the stored finding with this target (one vulnerability is
\* reported throughout), 0 if there is none: the loop of lines 60-64.
StoredIdOf(stored, target) ==
  IF \E k \in 1..Len(stored) : stored[k].target = target
  THEN stored[CHOOSE k \in 1..Len(stored) :
                /\ stored[k].target = target
                /\ \A j \in 1..(k - 1) : stored[j].target # target].id
  ELSE 0

\* add_finding(scan_id, target, vulnerability, ...) is entered.
AddCall(w, target) ==
  /\ calc.writer[w].pc = "idle"
  /\ calc.nextId <= MaxFindingIds
  /\ calc' = [calc EXCEPT !.writer[w] = [pc |-> "check", target |-> target,
                                         returned |-> 0]]
  /\ UNCHANGED <<schedVars, scanVars, lookups, engine>>

\* Lines 60-64: a stored duplicate returns its id; otherwise the writer goes
\* on to build the finding.
AddCheck(w) ==
  /\ calc.writer[w].pc = "check"
  /\ LET id == StoredIdOf(calc.stored, calc.writer[w].target)
     IN  calc' = IF id # 0
                 THEN [calc EXCEPT !.writer[w].pc = "idle",
                                   !.writer[w].returned = id]
                 ELSE [calc EXCEPT !.writer[w].pc = "append"]
  /\ UNCHANGED <<schedVars, scanVars, lookups, engine>>

\* Lines 66-81: a fresh id, the finding appended to the scan's list, the id
\* returned.
AddAppend(w) ==
  /\ calc.writer[w].pc = "append"
  /\ calc' = [calc EXCEPT
                !.stored = Append(@, [id |-> calc.nextId,
                                      target |-> calc.writer[w].target]),
                !.nextId = @ + 1,
                !.writer[w].pc = "idle",
                !.writer[w].returned = calc.nextId]
  /\ UNCHANGED <<schedVars, scanVars, lookups, engine>>

FindingsNext ==
  \/ \E w \in Writers, t \in Targets : AddCall(w, t)
  \/ \E w \in Writers : AddCheck(w)
  \/ \E w \in Writers : AddAppend(w)

FindingsSpec == FindingsInit /\ [][FindingsNext]_vars

\* C21: the scan's list holds at most one finding per (target, vulnerability),
\* whatever the interleaving of the writers.
C21_NoDuplicateFinding ==
  \A j, k \in 1..Len(calc.stored) :
    calc.stored[j].target = calc.stored[k].target => j = k

\* ============================================================== Normalizer
\* A finding dictionary is a record; a key the dictionary lacks holds None.
MaxFindingsIn == 2

FindingDicts ==
  [id : {None, "i1"}, uuid : {None, "u1"}, type : {"sqli", "xss"},
   severity : {None, "High", "low"}, evidence : {None, <<"e">>}]

\* A severity left as it was given.
SeverityKept(sev) == sev

\* str.lower() on the severities.
Lower(sev) ==
  CASE sev = "High" -> "high"
    [] sev = "MEDIUM" -> "medium"
    [] OTHER -> sev

\* d.get(key, default)
Get(value, default) == IF value = None THEN default ELSE value

\* x or y: None and the empty string are false.
Or(x, y) == IF x = None \/ x = "" THEN y ELSE x

normalize_finding(f) ==
  [id |-> Or(f.id, f.uuid),
   type |-> f.type,
   severity |-> Lower(Get(f.severity, "medium")),
   evidence |-> Get(f.evidence, <<>>)]

normalize_findings(fs) == [k \in 1..Len(fs) |-> normalize_finding(fs[k])]

NormalizeInit ==
  /\ \E fs \in UNION {[1..n -> FindingDicts] : n \in 0..MaxFindingsIn} :
       calc = [pc |-> "input", findings |-> fs, normalized |-> <<>>]
  /\ engine = None
  /\ lookups = <<>>
  /\ NoScan
  /\ NoSched

\* Normalizer.normalize_findings(findings)
Normalize ==
  /\ calc.pc = "input"
  /\ calc' = [calc EXCEPT !.pc = "normalized",
                          !.normalized = normalize_findings(calc.findings)]
  /\ UNCHANGED <<schedVars, scanVars, lookups, engine>>

NormalizeSpec == NormalizeInit /\ [][Normalize]_vars

\* C22: the normalized list has the length and the order of the input; each
\* entry has the input's id or, without one, its uuid, the input's type and
\* evidence, and the severity in lower case, "medium" when the input has none.
C22_NormalizeFindings ==
  calc.pc = "normalized" =>
    /\ Len(calc.normalized) = Len(calc.findings)
    /\ \A k \in 1..Len(calc.findings) :
         LET f == calc.findings[k]
             n == calc.normalized[k]
         IN  /\ n.id = IF f.id # None THEN f.id ELSE f.uuid
             /\ n.type = f.type
             /\ f.evidence # None => n.evidence = f.evidence
             /\ n.severity = IF f.severity = None THEN "medium"
                             ELSE IF f.severity = "High" THEN "high"
                             ELSE f.severity
             /\ n.severity \in {"high", "medium", "low"}

\* Two findings of different type, one with a mixed-case severity and an id,
\* one with neither, have been normalized.
C22_Witness ==
  /\ calc.pc = "normalized"
  /\ Len(calc.findings) = 2
  /\ calc.findings[1].type # calc.findings[2].type
  /\ calc.findings[1].severity = "High" /\ calc.findings[1].id # None
  /\ calc.findings[2].severity = None /\ calc.findings[2].id = None
  /\ calc.findings[2].uuid # None

\* ------------------------------------- a target with one answer per URL
\* Every request to a URL of this target, unmodified or carrying a payload, is
\* answered without delay by the same status and body.
StableResponses == SqliResponses \ {FailResp}

StableTargetInit ==
  /\ scanner = Scanner("sqli", FALSE)
  /\ baselines = EmptyMap
  /\ baselineRequests = NoRequests
  /\ call = None
  /\ pos = Pos("idle", 0, 0)
  /\ base = None
  /\ findings = <<>>
  /\ probe = NoProbe
  /\ lookups = <<>>
  /\ engine = None
  /\ \E t \in [Urls -> StableResponses] : calc = [target |-> t]
  /\ NoSched

\* r is what the target answers to a request of the running scan.
Answers(r) ==
  /\ pos.proc \notin {"idle", "returned", "raised"}
  /\ r = calc.target[call.url]

StableTargetNext ==
  \/ \E c \in SqliCalls : SqliCall(c)
  \/ \E r \in StableResponses : Answers(r) /\ SqliBaseline(r)
  \/ \E r \in StableResponses : Answers(r) /\ SqliPostBaseline(r)
  \/ \E r \in StableResponses : Answers(r) /\ SqliError(r)
  \/ \E r \in StableResponses : Answers(r) /\ SqliBoolTrue(r)
  \/ \E r \in StableResponses : Answers(r) /\ SqliBoolFalse(r)
  \/ \E r \in StableResponses : Answers(r) /\ SqliTime(r, 1)
  \/ \E r \in StableResponses : Answers(r) /\ SqliUnion(r)

StableTargetSpec == StableTargetInit /\ [][StableTargetNext]_vars

\* C23: a scan of a target that answers the baseline request and every probe
\* with the same status and body (a body without database error text), faster
\* than the timing threshold, returns no findings.
C23_IdenticalResponsesNoFinding ==
  (/\ pos.proc = "returned"
   /\ call.method = "GET"
   /\ \A u \in Urls : ~looks_like_db_error(calc.target[u].body))
    => findings = <<>>

\* C24: the baseline compared against while parameter p of URL u is probed is
\* the response of the unmodified request to u.
C24_BaselineOfSameUrl ==
  (pos.proc \in SqliProbeProcs /\ call.method = "GET")
    => base = MakeBaseline(calc.target[call.url])

\* C25: no finding comes from comparing a probe response with a baseline
\* whose request failed (status 0), and no failed baseline is kept in the
\* baseline cache.
C25_FailedBaselineUnused ==
  [][/\ (Len(findings') > Len(findings) /\ pos.proc \in {"bool_f", "union"})
          => base.status # 0
     /\ \A p \in DOMAIN baselines' : baselines'[p].status # 0]_vars

\* C26: the status of a scan moves only along queued -> running -> completed
\* or from queued or running to stopped, at most one worker that can still
\* run exists for a scan id, and the progress of a scan never decreases.
C26_ScanLifecycle ==
  [][\A id \in DOMAIN engine.scans :
       LET old == engine.scans[id]
           new == engine'.scans[id]
       IN  /\ \/ new.status = old.status
              \/ <<old.status, new.status>> \in
                   {<<"queued", "running">>, <<"running", "completed">>,
                    <<"queued", "stopped">>, <<"running", "stopped">>}
           /\ new.progress >= old.progress
           /\ Cardinality({w \in 1..Len(engine'.workers) :
                             /\ engine'.workers[w].scan = id
                             /\ engine'.workers[w].pc \in {"new", "sleeping"}}) <= 1]_vars

\* ============================================================ SessionStore
\* One token; time in whole seconds up to MaxNow; every session has ttl SessionTtl.
NumThreads == 2

MaxNow == 3

SessionTtl == 1

Threads == 1..NumThreads

\* The value of _sessions.get(token) when the token is not stored.
NoSession == -1

\* A thread outside the store's methods; raised tells how its last call ended.
IdleThread == [op |-> None, pc |-> "idle", raised |-> FALSE]

\* SessionStore() followed by create_session(...) at time 0: the lock
\* (0: free, else the thread holding it) is free and the token is stored with
\* created_at 0.
SessionInit ==
  /\ calc = [lock |-> 0, created_at |-> 0, now |-> 0,
             thread |-> [t \in Threads |-> IdleThread]]
  /\ engine = None
  /\ lookups = <<>>
  /\ NoScan
  /\ NoSched

\* AuthSession.is_expired
is_expired(created_at, now) == now > created_at + SessionTtl

\* time.time() moves on.
Tick ==
  /\ calc.now < MaxNow
  /\ calc' = [calc EXCEPT !.now = @ + 1]
  /\ UNCHANGED <<schedVars, scanVars, lookups, engine>>

\* get_session(token) or refresh_session(token) is called: the thread comes
\* to the `with self._lock` of that method.
StoreCall(t, op) ==
  /\ calc.thread[t].pc = "idle"
  /\ calc' = [calc EXCEPT !.thread[t] =
                [op |-> op, pc |-> IF op = "refresh" THEN "refresh_lock" ELSE "get_lock",
                 raised |-> FALSE]]
  /\ UNCHANGED <<schedVars, scanVars, lookups, engine>>

\* `with self._lock` acquires the threading.Lock, which is not reentrant: the
\* thread waits while anyone holds it, itself included.  After the lock of
\* refresh_session the thread calls self.get_session(token) and comes to the
\* lock of get_session.
AcquireLock(t) ==
  /\ calc.thread[t].pc \in {"refresh_lock", "get_lock"}
  /\ calc.lock = 0
  /\ calc' = [calc EXCEPT !.lock = t,
                          !.thread[t].pc = IF @ = "refresh_lock" THEN "get_lock"
                                           ELSE "get_body"]
  /\ UNCHANGED <<schedVars, scanVars, lookups, engine>>

\* The body of get_session under the lock: a missing or expired session
\* raises SessionExpired (the expired one is deleted), otherwise the session is
\* returned; leaving the with block releases the lock.  When the caller is
\* refresh_session, it then sets created_at and leaves its own with block.
GetSessionBody(t) ==
  /\ calc.thread[t].pc = "get_body"
  /\ LET missing == calc.created_at = NoSession
         expired == ~missing /\ is_expired(calc.created_at, calc.now)
     IN  calc' = [calc EXCEPT
           !.lock = 0,
           !.created_at = IF missing \/ expired THEN NoSession
                          ELSE IF calc.thread[t].op = "refresh" THEN calc.now
                          ELSE @,
           !.thread[t] = [op |-> calc.thread[t].op, pc |-> "idle",
                          raised |-> missing \/ expired]]
  /\ UNCHANGED <<schedVars, scanVars, lookups, engine>>

SessionNext ==
  \/ Tick
  \/ \E t \in Threads, op \in {"get", "refresh"} : StoreCall(t, op)
  \/ \E t \in Threads : AcquireLock(t)
  \/ \E t \in Threads : GetSessionBody(t)

\* Every thread that can take a step takes it at some time.
SessionFairSpec ==
  /\ SessionInit
  /\ [][SessionNext]_vars
  /\ \A t \in Threads : WF_vars(AcquireLock(t)) /\ WF_vars(GetSessionBody(t))

\* C27: every call of refresh_session returns or raises.
C27_RefreshReturns ==
  \A t \in Threads :
    (calc.thread[t].op = "refresh" /\ calc.thread[t].pc # "idle")
      ~> (calc.thread[t].pc = "idle")

\* ============================================================ ScannerState
\* _initialize sets active_scans, config and flags, one after the other.
NumAttributes == 3

\* The class before any construction: _instance is None (created FALSE, no
\* attribute set), _lock is free (0), and the threads of SessionStore's model
\* are outside __new__; received is the number of attributes the instance had
\* when the thread was handed it.
StateInit ==
  /\ calc = [created |-> FALSE, attributes |-> 0, lock |-> 0, initialized |-> 0,
             thread |-> [t \in Threads |-> [pc |-> "idle", received |-> 0]]]
  /\ engine = None
  /\ lookups = <<>>
  /\ NoScan
  /\ NoSched

\* A thread at pc takes the step that leads it to `next`.
StateStep(t, pc, next, created, attributes, lock) ==
  /\ calc.thread[t].pc = pc
  /\ calc' = [calc EXCEPT !.created = created, !.attributes = attributes,
                          !.lock = lock,
                          !.initialized = IF next = "initialize" /\ pc = "check_locked"
                                          THEN @ + 1 ELSE @,
                          !.thread[t] = [pc |-> next,
                                         received |-> IF next = "returned"
                                                      THEN calc.attributes
                                                      ELSE calc.thread[t].received]]
  /\ UNCHANGED <<schedVars, scanVars, lookups, engine>>

\* ScannerState() is called.
New(t) ==
  \E pc \in {"idle", "returned"} :
    StateStep(t, pc, "check", calc.created, calc.attributes, calc.lock)

\* if not cls._instance: (line 22, outside the lock)
CheckUnlocked(t) ==
  StateStep(t, "check", IF calc.created THEN "return" ELSE "lock",
            calc.created, calc.attributes, calc.lock)

\* with cls._lock:
LockClass(t) ==
  /\ calc.lock = 0
  /\ StateStep(t, "lock", "check_locked", calc.created, calc.attributes, t)

\* if not cls._instance: cls._instance = super().__new__(cls)  (lines 24-25);
\* an instance found leaves the with block.
CheckLocked(t) ==
  IF calc.created
    THEN StateStep(t, "check_locked", "return", TRUE, calc.attributes, 0)
    ELSE StateStep(t, "check_locked", "initialize", TRUE, 0, calc.lock)

\* cls._instance._initialize(): the next attribute is set; after the last one
\* the with block is left.
Initialize(t) ==
  LET n == calc.attributes + 1 IN
    StateStep(t, "initialize", IF n = NumAttributes THEN "return" ELSE "initialize",
              TRUE, n, IF n = NumAttributes THEN 0 ELSE calc.lock)

\* return cls._instance
ReturnInstance(t) ==
  StateStep(t, "return", "returned", calc.created, calc.attributes, calc.lock)

StateNext ==
  \E t \in Threads :
    \/ New(t)
    \/ CheckUnlocked(t)
    \/ LockClass(t)
    \/ CheckLocked(t)
    \/ Initialize(t)
    \/ ReturnInstance(t)

StateSpec == StateInit /\ [][StateNext]_vars

C29_UnionSeverityHigh ==
  [][(scanner.class = "sqli" /\ Len(findings') > Len(findings))
       => findings'[Len(findings')].severity =
            IF pos.proc = "bool_f" THEN "Medium" ELSE "High"]_vars

\* ============================================================ XPathScanner
NumXpathPayloads == 5
XPATH_SIM_BELOW == 70

\* self.findings is not let grow beyond this many entries.
MaxXpathFindings == 3

\* What the target may answer; the token "X" stands for XPath error text.
XpathResponses == {FailResp, Resp(200, <<"a">>), Resp(200, <<"X">>)}

XpathCalls ==
  {[method |-> "GET", url |-> "u1", params |-> ps] : ps \in {<<>>, <<"p">>, <<"p", "q">>}}

\* XPathScanner.__init__: self.findings = []
XpathInit ==
  /\ scanner = Scanner("xpath", FALSE)
  /\ baselines = EmptyMap
  /\ baselineRequests = NoRequests
  /\ call = None
  /\ pos = Pos("idle", 0, 0)
  /\ base = None
  /\ findings = <<>>
  /\ probe = NoProbe
  /\ lookups = <<>>
  /\ NoRest
  /\ NoSched

\* scan_get_params(url, params) is called; self.findings is left as it is.
XpathCall(c) ==
  /\ scanner.class = "xpath"
  /\ pos.proc \in {"idle", "returned"}
  /\ Len(findings) + Len(c.params) <= MaxXpathFindings
  /\ call' = c
  /\ base' = None
  /\ probe' = NoProbe
  /\ pos' = Pos("baseline", 0, 0)
  /\ UNCHANGED <<schedVars, scanner, findings, baselines, baselineRequests, lookups, restVars>>

\* for p in params: the next parameter, or return self.findings.
XpathNextParam ==
  IF pos.p < Len(call.params) THEN Pos("payload", pos.p + 1, 1) ELSE Returned

\* base_status, base_body, _ = await self._get(url)
XpathBaseline(r) ==
  /\ scanner.class = "xpath"
  /\ pos.proc = "baseline"
  /\ base' = [status |-> r.status, snippet |-> Prefix(r.body)]
  /\ probe' = [NoProbe EXCEPT !.op = "baseline", !.sent = TRUE,
                 !.status = r.status, !.body = r.body]
  /\ pos' = XpathNextParam
  /\ UNCHANGED <<schedVars, scanner, call, findings, baselines, baselineRequests, lookups, restVars>>

\* if st == 0: continue ... if err or sim < 0.7
XpathPositive(r, snippet) ==
  /\ r.status # 0
  /\ \/ \E k \in 1..Len(r.body) : r.body[k] = "X"
     \/ similarity(r.body, snippet) < XPATH_SIM_BELOW

\* One payload is sent; a positive decision appends the report to
\* self.findings (an exception of log_finding is swallowed by _report) and
\* breaks the payload loop.
XpathPayload(r) ==
  /\ scanner.class = "xpath"
  /\ pos.proc = "payload"
  /\ probe' = [NoProbe EXCEPT !.op = "payload", !.i = pos.i, !.sent = TRUE,
                 !.status = r.status, !.body = r.body]
  /\ Decide(XpathPositive(r, base.snippet),
            [category |-> "XPath Injection", parameter |-> CurParam,
             technique |-> "xpath", payload |-> pos.i, severity |-> "Medium"],
            "ok", XpathNextParam,
            IF pos.i < NumXpathPayloads THEN Pos("payload", pos.p, pos.i + 1)
            ELSE XpathNextParam)
  /\ UNCHANGED <<schedVars, scanner, call, base, baselines, baselineRequests, lookups, restVars>>

XpathNext ==
  \/ \E c \in XpathCalls : XpathCall(c)
  \/ \E r \in XpathResponses : XpathBaseline(r)
  \/ \E r \in XpathResponses : XpathPayload(r)

XpathSpec == XpathInit /\ [][XpathNext]_vars

\* C30: the list a scan call returns holds at most one finding for each
\* parameter given to that call, and nothing else.
C30_ReturnsOwnFindings ==
  (scanner.class = "xpath" /\ pos.proc = "returned") =>
    /\ \A k \in 1..Len(findings) :
         \E j \in 1..Len(call.params) : findings[k].parameter = call.params[j]
    /\ \A j, k \in 1..Len(findings) :
         findings[j].parameter = findings[k].parameter => j = k

====
